---------------------------- MODULE Spec2Model ----------------------------
(***************************************************************************)
(* A model of the game component (src/unnamed/part_000): the React state   *)
(* and localStorage of GameCanvas, the closure of the game-loop effect     *)
(* (lines 136-663) and its frame step gameLoop, the input handler and the  *)
(* start command.                                                          *)
(*                                                                         *)
(* Numbers.  The source computes in floating point.  Lengths, positions    *)
(* and per-frame velocities are kept here as integers in units of 1/10000  *)
(* pixel, in which every value the code can produce from its constants is  *)
(* exact; multipliers are kept in percent; timestamps are milliseconds.    *)
(* A value of Math.random() in [0, 1) is an integer number of thousandths, *)
(* 0..999.                                                                 *)
(***************************************************************************)
EXTENDS Integers, Sequences, FiniteSets

-----------------------------------------------------------------------------
(* Game constants, lines 7-29 (scaled as described above).                 *)

GAME_WIDTH == 8000000
GAME_HEIGHT == 6000000
GATE_SPEED == 25300
DIFFICULTY_INCREASE == 10
DIFFICULTY_GATE_THRESHOLD == 15
BTC_SPEED_BOOST == 110
SOL_SPEED_BOOST == 200
ETH_SPEED_FACTOR == 50
GATE_WIDTH == 500000
GATE_DISTANCE == GATE_WIDTH * 4
INITIAL_GATE_GAP == 1500000
NARROW_GATE_GAP == 1200000
GATE_GAP_INCREASE_PERCENT == 50
LINE_X_POSITION == 1000000
BOUNCE_VELOCITY == -55000
GRAVITY == 2200
TOKEN_COLLECTION_RADIUS == 500000
SCREEN_FLASH_DURATION == 150
BCH_CHAOS_DURATION == 3000
SOL_EFFECT_DURATION == 5000
BTC_EFFECT_DURATION == 10000
ETH_EFFECT_DURATION == 5000
TAO_EFFECT_DURATION == 5000
HBAR_EFFECT_DURATION == 10000
MIN_VERTICAL_VARIANCE == -1000000
MAX_VERTICAL_VARIANCE == 1000000
minTopHeight == 500000
maxTopHeight == GAME_HEIGHT - INITIAL_GATE_GAP - 1000000

(* enum TokenType, lines 32-40, in declaration order.                      *)
NONE == "none"
BTC == "btc"
ETH == "eth"
TAO == "tao"
BCH == "bch"
HBAR == "hbar"
SOL == "sol"
TokenKinds == <<BTC, ETH, TAO, BCH, HBAR, SOL>>
Kinds == {TokenKinds[i] : i \in 1..Len(TokenKinds)}

(* enum GameState, lines 43-47.                                            *)
START == 0
PLAYING == 1
GAME_OVER == 2

-----------------------------------------------------------------------------
(* JavaScript values.  NaN and undefined are sentinels outside the range   *)
(* of every number of the model; an ordering comparison with either is     *)
(* false, as in JavaScript.                                                *)

NaN == 0 - 2000000001
Undefined == 0 - 2000000002

JsGreater(a, b) ==
    /\ a # NaN /\ a # Undefined
    /\ b # NaN /\ b # Undefined
    /\ a > b

ZeroCounts == [k \in Kinds |-> 0]

(* A string is a sequence of one-character strings; getItem's null is a    *)
(* value that is no such sequence.                                         *)
Null == <<"null">>
Digits == <<"0", "1", "2", "3", "4", "5", "6", "7", "8", "9">>
IsDigit(c) == \E d \in 1..10 : Digits[d] = c
DigitValue(c) == (CHOOSE d \in 1..10 : Digits[d] = c) - 1
IsSpace(c) == c = " "

(* JavaScript truthiness of a getItem result: null and "" are falsy.       *)
Truthy(s) == s # Null /\ s # <<>>

RECURSIVE SkipSpaces(_)
SkipSpaces(s) ==
    IF s # <<>> /\ IsSpace(Head(s)) THEN SkipSpaces(Tail(s)) ELSE s

RECURSIVE ReadDigits(_, _, _)
(* The value of the longest prefix of digits of s, NaN when it is empty.   *)
ReadDigits(s, acc, seen) ==
    IF s # <<>> /\ IsDigit(Head(s))
    THEN ReadDigits(Tail(s), acc * 10 + DigitValue(Head(s)), TRUE)
    ELSE IF seen THEN acc ELSE NaN

(* Number.parseInt(s, 10): leading white space, an optional sign, then the *)
(* longest run of decimal digits; NaN when there is no digit.              *)
ParseInt(s) ==
    LET t == SkipSpaces(s)
        neg == t # <<>> /\ Head(t) = "-"
        u == IF t # <<>> /\ Head(t) \in {"-", "+"} THEN Tail(t) ELSE t
        n == ReadDigits(u, 0, FALSE)
    IN  IF n = NaN THEN NaN ELSE IF neg THEN 0 - n ELSE n

RECURSIVE NatToString(_)
NatToString(n) ==
    IF n < 10 THEN <<Digits[n + 1]>>
    ELSE NatToString(n \div 10) \o <<Digits[(n % 10) + 1]>>

(* Number.prototype.toString() of an integer.                              *)
NumberToString(n) == IF n < 0 THEN <<"-">> \o NatToString(0 - n) ELSE NatToString(n)

(* A stored counts item: absent ("null"), the empty string ("empty"), a    *)
(* text JSON.parse rejects ("text"), or a JSON text ("json") whose value   *)
(* has, for each token kind, a number or no such property (Undefined).     *)
NoCountsItem == [tag |-> "null", val |-> [k \in Kinds |-> Undefined]]
CountsItemTruthy(item) == item.tag \in {"text", "json"}
JsonParses(item) == item.tag = "json"
JsonParse(item) == item.val
JsonStringify(counts) == [tag |-> "json", val |-> counts]


-----------------------------------------------------------------------------
(* Random draws.  Creating a gate reads Math.random() five times, in this  *)
(* order: the vertical variance (rv), the opening start (rt), the narrow   *)
(* roll (rn), the token roll (rr) and the index into the token pool (ri).  *)
(* A run reads its draws from one of a few tapes, cyclically.              *)

Frac(r, range) == r * (range \div 1000)

Draw(rv, rt, rn, rr, ri) == [rv |-> rv, rt |-> rt, rn |-> rn, rr |-> rr, ri |-> ri]

(* A tape: the draws of the gates, and the draws of chaos mode (line 285),  *)
(* one per frame, read cyclically by frame number.                         *)
Tape(gateDraws, chaosDraws) == [gates |-> gateDraws, chaos |-> chaosDraws]

RandomTapes ==
    << Tape(<<Draw(500, 600, 900, 100, 0), Draw(500, 600, 900, 900, 0)>>,
            <<0, 999, 500>>),
       Tape(<<Draw(500, 600, 100, 900, 0), Draw(500, 600, 900, 100, 999)>>,
            <<0, 999, 500>>),
       Tape(<<Draw(0, 0, 900, 100, 999), Draw(999, 999, 100, 100, 999)>>,
            <<0, 999, 500>>),
       (* 4: openings 230..380, every second gate with an HBAR token       *)
       Tape(<<Draw(500, 600, 900, 900, 0), Draw(500, 600, 900, 100, 700)>>,
            <<0, 999, 500>>),
       (* 5: opening 230..380 with a BTC token, then a narrow opening      *)
       (* 200..320 (200..380 when widened) without token                   *)
       Tape(<<Draw(500, 600, 900, 100, 0), Draw(500, 500, 100, 900, 0)>>,
            <<0, 999, 500>>),
       (* 6: 230..380 with BTC, 230..380 with SOL, 200..320 without token  *)
       Tape(<<Draw(500, 600, 900, 100, 0), Draw(500, 600, 900, 100, 999),
              Draw(500, 500, 100, 900, 0)>>,
            <<0, 999, 500>>),
       (* 7: 230..380 with BCH, 230..380 with SOL                          *)
       Tape(<<Draw(500, 600, 900, 100, 600), Draw(500, 600, 900, 100, 999)>>,
            <<0, 999, 500>>),
       (* 8: 230..380 with BCH, 230..380 without token; the chaos draws    *)
       (* take a marker that falls from the orbit begun at frame 24 to     *)
       (* the lower bound exactly                                          *)
       Tape(<<Draw(500, 600, 900, 100, 600), Draw(500, 600, 900, 900, 0)>>,
            <<500, 500, 597>>),
       (* 9: opening 300..450: the pilot's orbit touches its top boundary  *)
       Tape(<<Draw(850, 600, 900, 900, 0)>>, <<0, 999, 500>>),
       (* 10: openings 230..380, with SOL and BTC tokens in turn           *)
       Tape(<<Draw(500, 600, 900, 100, 999), Draw(500, 600, 900, 100, 0)>>,
            <<0, 999, 500>>),
       (* 11: openings 230..380, every second gate with a SOL token        *)
       Tape(<<Draw(500, 600, 900, 100, 999), Draw(500, 600, 900, 900, 0)>>,
            <<0, 999, 500>>),
       (* 12: openings 230..380, with ETH and TAO tokens in turn           *)
       Tape(<<Draw(500, 600, 900, 100, 200)>>, <<0, 999, 500>>) >>

TapeDraw(t, n) == RandomTapes[t].gates[((n - 1) % Len(RandomTapes[t].gates)) + 1]

ChaosDraw(t, n) == RandomTapes[t].chaos[(n % Len(RandomTapes[t].chaos)) + 1]

(* The display's frame interval in ms, fixed for a run.  The timestamps of  *)
(* a run are counted from the start of its effect: no timestamp outlives   *)
(* the closure that read it.  A run is played with one of these scenarios: *)
(* a tape, a frame interval, and whether the player is the pilot, who      *)
(* fires an impulse exactly when the velocity has reached PilotVelocity    *)
(* (from rest that keeps the marker on a closed orbit of 49 frames between *)
(* 300 and 366), or plays freely (see handleInput).  The pilot plays the   *)
(* first run of a session only.                                            *)
Scenario(t, dt, p) == [tape |-> t, frameInterval |-> dt, pilot |-> p]

(* The marathon: on tape 11 at 20 frames a second the pilot collects the   *)
(* SOL tokens before the effect of the last one has expired, flies level   *)
(* through every opening at twice the base speed, and is followed for      *)
(* MaxMarathonFrames frames.                                               *)
Marathon == Scenario(11, 50, TRUE)

Scenarios ==
    { Scenario(1, 16, FALSE), Scenario(2, 16, FALSE), Scenario(3, 100, FALSE),
      Scenario(4, 16, TRUE), Scenario(5, 125, TRUE), Scenario(6, 100, TRUE),
      Scenario(7, 16, TRUE), Scenario(8, 16, FALSE),
      Scenario(9, 16, TRUE), Scenario(10, 16, TRUE), Marathon,
      Scenario(12, 16, TRUE) }

(* Items found in localStorage when the component mounts: the high score   *)
(* string and the counts item.                                             *)
Stored(hs, counts) == [hs |-> hs, counts |-> counts]
StoredItems ==
    { Stored(Null, NoCountsItem),
      Stored(<<"a", "b", "c">>, [tag |-> "text", val |-> [k \in Kinds |-> Undefined]]),
      Stored(<<>>, [tag |-> "json", val |-> [k \in Kinds |-> Undefined]]),
      Stored(<<" ", "1", "x">>,
             [tag |-> "json", val |-> [k \in Kinds |-> IF k = SOL THEN 2 ELSE 0]]) }

(* The player fires an impulse when the velocity is one of these (firing   *)
(* at 5.28 keeps the marker on a closed orbit of 49 frames), or when the   *)
(* run has made one of these numbers of frame steps.                       *)
FireVelocities == {52800}
FireFrames == {0, 10}
PilotVelocity == 24 * GRAVITY

(* Bounds of the model.                                                    *)
MaxFrames == 380
MaxPilotFrames == 1500
MaxMarathonFrames == 14800
MaxSpawnLog == 40
MaxRuns == 2
MaxImpulses == 2
MaxLinger == 1

-----------------------------------------------------------------------------
(* Pure parts of the game code.                                            *)

Min(a, b) == IF a < b THEN a ELSE b
Max(a, b) == IF a > b THEN a ELSE b
Abs(a) == IF a < 0 THEN 0 - a ELSE a

(* getRandomVerticalVariance, lines 197-199.                               *)
GetRandomVerticalVariance(r) ==
    MIN_VERTICAL_VARIANCE + Frac(r, MAX_VERTICAL_VARIANCE - MIN_VERTICAL_VARIANCE)

(* Mutant: the pool holds every kind.                                      *)
PossibleTokens_All(last) == TokenKinds

(* The pool of getRandomTokenType, lines 207-216: every kind but the last  *)
(* one spawned, in declaration order.                                      *)
PossibleTokens(last) == SelectSeq(TokenKinds, LAMBDA k : k # last)

(* getRandomTokenType, lines 202-226.                                      *)
GetRandomTokenType(last, tokenRoll, r) ==
    LET possibleTokens == PossibleTokens(last)
    IN  IF tokenRoll < 250 /\ Len(possibleTokens) > 0
        THEN possibleTokens[((r * Len(possibleTokens)) \div 1000) + 1]
        ELSE NONE

(* Mutant: the opening start is not clamped.                               *)
TopHeight_Unclamped(rt, rv) ==
    Frac(rt, maxTopHeight - minTopHeight) + minTopHeight + GetRandomVerticalVariance(rv)

(* The opening start of a new gate, lines 234-240 and 348-354.             *)
TopHeight(rt, rv) ==
    Max(minTopHeight,
        Min(maxTopHeight,
            Frac(rt, maxTopHeight - minTopHeight) + minTopHeight
                + GetRandomVerticalVariance(rv)))

(* Lines 243-244 and 357-358: narrow with probability 0.3.                 *)
BaseGateGap(rn) == IF rn < 300 THEN NARROW_GATE_GAP ELSE INITIAL_GATE_GAP

(* The gate pushed by initializeGate (lines 229-257) and by the spawn of   *)
(* gameLoop (lines 343-371).                                               *)
(* n numbers the gates of a run in the order of their creation.            *)
CreateGate(d, last, n) ==
    [ n |-> n,
      x |-> GAME_WIDTH,
      topHeight |-> TopHeight(d.rt, d.rv),
      hasPassed |-> FALSE,
      tokenType |-> GetRandomTokenType(last, d.rr, d.ri),
      baseGateGap |-> BaseGateGap(d.rn),
      isFlashing |-> FALSE ]

(* Mutant: the next gate is due one gate width behind the last one.        *)
SpawnDue_Early(lastX) == lastX <= GAME_WIDTH - GATE_WIDTH

(* Line 343.                                                               *)
SpawnDue(lastX) == lastX <= GAME_WIDTH - GATE_DISTANCE

(* Mutant: the BTC effect narrows the gap by the percentage.               *)
ActualGateGap_Narrows(baseGateGap, btc) ==
    IF btc THEN (baseGateGap * (100 - GATE_GAP_INCREASE_PERCENT)) \div 100
    ELSE baseGateGap

(* Mutant: the BTC effect does not widen the gap.                          *)
ActualGateGap_NoWiden(baseGateGap, btc) == baseGateGap

(* Lines 393-396.                                                          *)
ActualGateGap(baseGateGap, btc) ==
    IF btc THEN (baseGateGap * (100 + GATE_GAP_INCREASE_PERCENT)) \div 100
    ELSE baseGateGap

(* Line 403.                                                               *)
Overlaps(x) == x <= LINE_X_POSITION /\ x + GATE_WIDTH >= LINE_X_POSITION

(* Mutant: the SOL effect does not suppress the collision.                 *)
Collision_NoGhost(y, topHeight, gap, sol) ==
    y <= topHeight \/ y >= topHeight + gap

(* Mutant: a position on a boundary of the opening does not collide.       *)
Collision_Strict(y, topHeight, gap, sol) ==
    ~sol /\ (y < topHeight \/ y > topHeight + gap)

(* Lines 405-419.                                                          *)
Collision(y, topHeight, gap, sol) ==
    ~sol /\ (y <= topHeight \/ y >= topHeight + gap)

(* Mutant: the distance to the token is not tested.                        *)
TokenCollected_NoRadius(y, gate, gap) == gate.tokenType # NONE

(* Lines 452-454.                                                          *)
TokenCollected(y, gate, gap) ==
    /\ gate.tokenType # NONE
    /\ Abs(y - (gate.topHeight + gap \div 2)) < TOKEN_COLLECTION_RADIUS

(* Mutant: the passed flag is not tested.                                  *)
Passes_Repeated(gate, x) == x + GATE_WIDTH < LINE_X_POSITION

(* Line 490.                                                               *)
Passes(gate, x) == ~gate.hasPassed /\ x + GATE_WIDTH < LINE_X_POSITION

(* Mutant: the level itself, not the level less one, scales the speed.     *)
BaseSpeedAt_OffByOne(level) ==
    (GATE_SPEED * (100 + level * DIFFICULTY_INCREASE)) \div 100

(* Line 499.                                                               *)
BaseSpeedAt(level) ==
    (GATE_SPEED * (100 + (level - 1) * DIFFICULTY_INCREASE)) \div 100

(* Line 505: the gate stays in the stream.                                 *)
StillVisible(x) == x + GATE_WIDTH > 0

(* Mutant: a position on the bound is out of bounds.                       *)
OutOfBounds_Inclusive(y) == y <= 0 \/ y >= GAME_HEIGHT

(* Line 538.                                                               *)
OutOfBounds(y) == y < 0 \/ y > GAME_HEIGHT

(* Mutant: the chaos kind is tracked as an effect too.                     *)
ApplyTokenEffect_TracksChaos(effects, tokenType, timestamp) ==
    Append(effects, [type |-> tokenType, endTime |-> timestamp + BCH_CHAOS_DURATION])

(* Mutant: a new effect replaces the earlier effects of its kind.          *)
ApplyTokenEffect_Replaces(effects, tokenType, timestamp) ==
    IF tokenType \in {BCH, NONE} THEN effects
    ELSE Append(SelectSeq(effects, LAMBDA e : e.type # tokenType),
                [type |-> tokenType,
                 endTime |-> timestamp + (IF tokenType \in {BTC, HBAR}
                                          THEN BTC_EFFECT_DURATION
                                          ELSE SOL_EFFECT_DURATION)])

(* applyTokenEffect, lines 610-651.                                        *)
ApplyTokenEffect(effects, tokenType, timestamp) ==
    CASE tokenType = BTC -> Append(effects, [type |-> BTC, endTime |-> timestamp + BTC_EFFECT_DURATION])
      [] tokenType = ETH -> Append(effects, [type |-> ETH, endTime |-> timestamp + ETH_EFFECT_DURATION])
      [] tokenType = TAO -> Append(effects, [type |-> TAO, endTime |-> timestamp + TAO_EFFECT_DURATION])
      [] tokenType = HBAR -> Append(effects, [type |-> HBAR, endTime |-> timestamp + HBAR_EFFECT_DURATION])
      [] tokenType = SOL -> Append(effects, [type |-> SOL, endTime |-> timestamp + SOL_EFFECT_DURATION])
      [] OTHER -> effects

(* Mutant: no effect is ever dropped.                                      *)
Unexpired_KeepsAll(effects, timestamp) == effects

(* Line 574.                                                               *)
Unexpired(effects, timestamp) ==
    SelectSeq(effects, LAMBDA e : e.endTime > timestamp)

RECURSIVE ApplyEffects_Reversed(_, _, _)
(* Mutant: the effects are applied from the end of the list to its start.  *)
ApplyEffects_Reversed(effects, base, d) ==
    IF effects = <<>> THEN d
    ELSE LET e == effects[Len(effects)]
             d1 == CASE e.type = ETH ->
                          [d EXCEPT !.currentSpeed = (base * ETH_SPEED_FACTOR) \div 100]
                      [] e.type = TAO -> [d EXCEPT !.flashingGates = TRUE]
                      [] e.type = HBAR -> [d EXCEPT !.isGoldMode = TRUE]
                      [] e.type = BTC ->
                          [d EXCEPT !.btcEffectActive = TRUE,
                                    !.currentSpeed = (base * BTC_SPEED_BOOST) \div 100]
                      [] e.type = SOL ->
                          [d EXCEPT !.solEffectActive = TRUE,
                                    !.currentSpeed = (base * SOL_SPEED_BOOST) \div 100,
                                    !.lineVelocity = 0]
                      [] OTHER -> d
         IN  ApplyEffects_Reversed(SubSeq(effects, 1, Len(effects) - 1), base, d1)

RECURSIVE ApplyEffects(_, _, _)
(* Lines 584-606: the effects applied in list order to the reset state d.  *)
ApplyEffects(effects, base, d) ==
    IF effects = <<>> THEN d
    ELSE LET e == Head(effects)
             d1 == CASE e.type = ETH ->
                          [d EXCEPT !.currentSpeed = (base * ETH_SPEED_FACTOR) \div 100]
                      [] e.type = TAO -> [d EXCEPT !.flashingGates = TRUE]
                      [] e.type = HBAR -> [d EXCEPT !.isGoldMode = TRUE]
                      [] e.type = BTC ->
                          [d EXCEPT !.btcEffectActive = TRUE,
                                    !.currentSpeed = (base * BTC_SPEED_BOOST) \div 100]
                      [] e.type = SOL ->
                          [d EXCEPT !.solEffectActive = TRUE,
                                    !.currentSpeed = (base * SOL_SPEED_BOOST) \div 100,
                                    !.lineVelocity = 0]
                      [] OTHER -> d
         IN  ApplyEffects(Tail(effects), base, d1)

(* Mutant: the SOL effect leaves the velocity as it is.                    *)
ProcessEffects_KeepsVelocity(effects, timestamp, base, velocity) ==
    LET live == Unexpired(effects, timestamp)
        reset == [ currentSpeed |-> base, isGoldMode |-> FALSE,
                   flashingGates |-> FALSE, btcEffectActive |-> FALSE,
                   solEffectActive |-> FALSE, lineVelocity |-> velocity ]
    IN  [ activeEffects |-> live,
          d |-> [ApplyEffects(live, base, reset) EXCEPT !.lineVelocity = velocity] ]

(* processEffects, lines 572-607.                                          *)
ProcessEffects(effects, timestamp, base, velocity) ==
    LET live == Unexpired(effects, timestamp)
        reset == [ currentSpeed |-> base, isGoldMode |-> FALSE,
                   flashingGates |-> FALSE, btcEffectActive |-> FALSE,
                   solEffectActive |-> FALSE, lineVelocity |-> velocity ]
    IN  [ activeEffects |-> live, d |-> ApplyEffects(live, base, reset) ]

-----------------------------------------------------------------------------
(* The run-end block of gameLoop, written twice in the source: lines       *)
(* 422-447 (gate collision) and 539-564 (out of bounds).                   *)

(* Lines 424 and 541.                                                      *)
HighScoreBeaten(current, high) == JsGreater(current, high)

(* Mutant: the run's counts replace the best counts whenever they differ.  *)
NewHighestCounts_Replace(highest, counts) ==
    [k \in Kinds |-> IF counts[k] # highest[k] THEN counts[k] ELSE highest[k]]

(* Lines 430-439 and 547-556: a copy of the best counts, raised to the     *)
(* run's count wherever that is greater.                                   *)
NewHighestCounts(highest, counts) ==
    [k \in Kinds |-> IF JsGreater(counts[k], highest[k]) THEN counts[k] ELSE highest[k]]

(* Mutant: the run end shows the start screen again.                       *)
RunEndState_Start == START

(* Line 422 and 539.                                                       *)
RunEndState == GAME_OVER

(* Lines 433-441 and 550-558.                                              *)
CountsUpdated(highest, counts) == \E k \in Kinds : JsGreater(counts[k], highest[k])

(* The block with its two tests evaluated.  A throw of the first setItem   *)
(* (line 426) skips lines 429-447; a throw of the second (line 443) skips  *)
(* line 447.                                                               *)
RunEndWith(rx, current, counts, beaten, newHighestCounts, countsUpdated, fail) ==
    [rx EXCEPT
       !.gameState = RunEndState,
       !.ended = TRUE,
       !.highScore = IF beaten THEN current ELSE @,
       !.lsHighScore = IF beaten /\ ~fail THEN NumberToString(current) ELSE @,
       !.highestTokenCounts =
           IF countsUpdated /\ ~(beaten /\ fail) THEN newHighestCounts ELSE @,
       !.lsCounts = IF countsUpdated /\ ~fail THEN JsonStringify(newHighestCounts) ELSE @,
       !.tokenCounts = IF fail /\ (beaten \/ countsUpdated) THEN @ ELSE counts,
       !.synced = ~(fail /\ (beaten \/ countsUpdated)),
       !.threw = fail /\ (beaten \/ countsUpdated)]

(* rx is the React state and localStorage as the block finds them;         *)
(* loopHigh and loopHighest are the values of highScore and                *)
(* highestTokenCounts the closure captured; fail says that setItem throws. *)
RunEnd(rx, current, counts, loopHigh, loopHighest, fail) ==
    RunEndWith(rx, current, counts,
               HighScoreBeaten(current, loopHigh),
               NewHighestCounts(loopHighest, counts),
               CountsUpdated(loopHighest, counts),
               fail)

-----------------------------------------------------------------------------
VARIABLES
    (* React state of GameCanvas (lines 80-110): the values last set.      *)
    gameState, score, highScore, tokenCounts, highestTokenCounts, tokenCountsRef,
    (* localStorage: "btcGameHighScore" and "btcGameHighestTokenCounts".   *)
    lsHighScore, lsCounts,
    (* mounted: the mount effect (lines 113-128) has run.  effectPending:  *)
    (* a dependency of the game-loop effect was set and React has not yet  *)
    (* committed (cleanup and effect have not run).                        *)
    mounted, effectPending,
    (* The closure of the game-loop effect, lines 145-165: loopActive says *)
    (* that it exists (its listeners are registered); rafQueue holds the   *)
    (* handles of the frame callbacks requested and neither run nor        *)
    (* cancelled; loopHighScore and loopHighestTokenCounts are the         *)
    (* highScore and highestTokenCounts the closure captured.              *)
    loopActive, rafQueue, animationFrameId, loopHighScore, loopHighestTokenCounts,
    lineY, lineVelocity, isAscending, gates, lastGateX, gatesPassed,
    currentScore, baseSpeed, currentSpeed, activeEffects, isGoldMode,
    flashingGates, btcEffectActive, solEffectActive, screenFlashTime,
    chaosMode, chaosModeEndTime, lastTokenType, difficultyLevel,
    (* The environment of a run: the timestamp of the last frame, the      *)
    (* frame interval, the random tape and the number of gates created.    *)
    now, frameInterval, tape, spawned, pilot,
    (* History of the run: the token kinds of the first MaxSpawnLog gates  *)
    (* created, in order, and the kind and timestamp of every token        *)
    (* collected less than LogWindow ms before the last frame, in order.   *)
    spawnLog, collectedLog,
    (* History: frame steps of this run, runs started, impulses since the  *)
    (* last frame step, frame steps run since the run ended, and what the  *)
    (* last step was and did (hits: the gates that collided; gaps: the gap *)
    (* the step used for each gate it visited; fired: an impulse was fired *)
    (* since the frame step before).                                       *)
    frames, runs, impulses, lingered, last

reactVars == <<gameState, score, highScore, tokenCounts, highestTokenCounts, tokenCountsRef>>
storeVars == <<lsHighScore, lsCounts>>
loopVars ==
    <<loopActive, rafQueue, animationFrameId, loopHighScore, loopHighestTokenCounts,
      lineY, lineVelocity, isAscending, gates, lastGateX, gatesPassed,
      currentScore, baseSpeed, currentSpeed, activeEffects, isGoldMode,
      flashingGates, btcEffectActive, solEffectActive, screenFlashTime,
      chaosMode, chaosModeEndTime, lastTokenType, difficultyLevel>>
envVars == <<now, frameInterval, tape, spawned, pilot, spawnLog, collectedLog>>
vars ==
    <<reactVars, storeVars, mounted, effectPending, loopVars, envVars,
      frames, runs, impulses, lingered, last>>

(* The collections of the log that a frame at timestamp can still depend  *)
(* on: twice the longest duration of an effect.                            *)
LogWindow == 2 * BTC_EFFECT_DURATION
Recent(log, timestamp) == SelectSeq(log, LAMBDA c : c.time + LogWindow > timestamp)

Op(name) ==
    [ op |-> name, ended |-> FALSE, collided |-> FALSE, oob |-> FALSE,
      threw |-> FALSE, synced |-> FALSE, collected |-> NONE, scheduled |-> FALSE,
      hits |-> {}, gaps |-> {}, fired |-> FALSE ]

(* The variables of lines 146-165 as the effect body sets them; a closure  *)
(* that does not exist (before the first run, after a cleanup) is kept at  *)
(* the same values, with no gate.                                          *)
FreshLoop ==
    /\ lineY' = GAME_HEIGHT \div 2
    /\ lineVelocity' = 0
    /\ isAscending' = FALSE
    /\ gatesPassed' = 0
    /\ currentScore' = 0
    /\ baseSpeed' = GATE_SPEED
    /\ currentSpeed' = GATE_SPEED
    /\ activeEffects' = <<>>
    /\ isGoldMode' = FALSE
    /\ flashingGates' = FALSE
    /\ btcEffectActive' = FALSE
    /\ solEffectActive' = FALSE
    /\ screenFlashTime' = 0
    /\ chaosMode' = FALSE
    /\ chaosModeEndTime' = 0
    /\ difficultyLevel' = 1
    /\ now' = 0
    /\ collectedLog' = <<>>
    /\ frames' = 0
    /\ impulses' = 0
    /\ lingered' = 0

Init ==
    /\ gameState = START
    /\ score = 0
    /\ highScore = 0
    /\ tokenCounts = ZeroCounts
    /\ highestTokenCounts = ZeroCounts
    /\ tokenCountsRef = ZeroCounts
    /\ \E item \in StoredItems :
         /\ lsHighScore = item.hs
         /\ lsCounts = item.counts
    /\ mounted = FALSE
    /\ effectPending = FALSE
    /\ loopActive = FALSE
    /\ rafQueue = {}
    /\ animationFrameId = 0
    /\ loopHighScore = 0
    /\ loopHighestTokenCounts = ZeroCounts
    /\ lineY = GAME_HEIGHT \div 2
    /\ lineVelocity = 0
    /\ isAscending = FALSE
    /\ gates = <<>>
    /\ lastGateX = GAME_WIDTH
    /\ gatesPassed = 0
    /\ currentScore = 0
    /\ baseSpeed = GATE_SPEED
    /\ currentSpeed = GATE_SPEED
    /\ activeEffects = <<>>
    /\ isGoldMode = FALSE
    /\ flashingGates = FALSE
    /\ btcEffectActive = FALSE
    /\ solEffectActive = FALSE
    /\ screenFlashTime = 0
    /\ chaosMode = FALSE
    /\ chaosModeEndTime = 0
    /\ lastTokenType = NONE
    /\ difficultyLevel = 1
    /\ now = 0
    /\ frameInterval = 16
    /\ tape = 1
    /\ spawned = 0
    /\ pilot = FALSE
    /\ spawnLog = <<>>
    /\ collectedLog = <<>>
    /\ frames = 0
    /\ runs = 0
    /\ impulses = 0
    /\ lingered = 0
    /\ last = Op("init")

-----------------------------------------------------------------------------
(* The mount effect, lines 113-128.                                        *)

(* Lines 114-117.                                                          *)
LoadHighScore(saved, current) ==
    IF Truthy(saved) THEN ParseInt(saved) ELSE current

(* Lines 120-127.                                                          *)
LoadHighestTokenCounts(saved, current) ==
    IF CountsItemTruthy(saved) /\ JsonParses(saved) THEN JsonParse(saved) ELSE current

Mount ==
    /\ ~mounted
    /\ mounted' = TRUE
    /\ highScore' = LoadHighScore(lsHighScore, highScore)
    /\ highestTokenCounts' = LoadHighestTokenCounts(lsCounts, highestTokenCounts)
    /\ last' = Op("mount")
    /\ UNCHANGED <<gameState, score, tokenCounts, tokenCountsRef, storeVars,
                   effectPending, loopVars, envVars, frames, runs, impulses, lingered>>

(* Mutant: the start command also removes the persisted items.             *)
handleStartGame_ClearsStorage ==
    /\ mounted
    /\ ~effectPending
    /\ gameState \in {START, GAME_OVER}
    /\ runs < MaxRuns
    /\ gameState' = PLAYING
    /\ score' = 0
    /\ tokenCounts' = ZeroCounts
    /\ tokenCountsRef' = ZeroCounts
    /\ lsHighScore' = Null
    /\ lsCounts' = NoCountsItem
    /\ effectPending' = TRUE
    /\ runs' = runs + 1
    /\ last' = Op("start")
    /\ UNCHANGED <<highScore, highestTokenCounts, mounted, loopVars,
                   envVars, frames, impulses, lingered>>

(* Mutant: the start command does not reset the score.                     *)
handleStartGame_KeepsScore ==
    /\ mounted
    /\ ~effectPending
    /\ gameState \in {START, GAME_OVER}
    /\ runs < MaxRuns
    /\ gameState' = PLAYING
    /\ tokenCounts' = ZeroCounts
    /\ tokenCountsRef' = ZeroCounts
    /\ effectPending' = TRUE
    /\ runs' = runs + 1
    /\ last' = Op("start")
    /\ UNCHANGED <<score, highScore, highestTokenCounts, storeVars, mounted, loopVars,
                   envVars, frames, impulses, lingered>>

(* handleStartGame, lines 1176-1189.  Its buttons are rendered in START    *)
(* and GAME_OVER only (lines 1204-1303), that is once React has committed  *)
(* the state.                                                              *)
handleStartGame ==
    /\ mounted
    /\ ~effectPending
    /\ gameState \in {START, GAME_OVER}
    /\ runs < MaxRuns
    /\ gameState' = PLAYING
    /\ score' = 0
    /\ tokenCounts' = ZeroCounts
    /\ tokenCountsRef' = ZeroCounts
    /\ effectPending' = TRUE
    /\ runs' = runs + 1
    /\ last' = Op("start")
    /\ UNCHANGED <<highScore, highestTokenCounts, storeVars, mounted, loopVars,
                   envVars, frames, impulses, lingered>>

(* handleInput, lines 175-179, reached from the keydown and click          *)
(* listeners (lines 181-194) while the closure exists.                     *)
(* Mutant: the impulse is added to the velocity.                           *)
HandleInputVelocity_Add(v) == v + BOUNCE_VELOCITY

HandleInputVelocity(v) == BOUNCE_VELOCITY

(* The number of frame steps a run is followed for.                        *)
FrameCap ==
    IF tape = Marathon.tape THEN MaxMarathonFrames
    ELSE IF pilot THEN MaxPilotFrames ELSE MaxFrames

(* The pilot fires now.                                                    *)
PilotFires == pilot /\ impulses = 0 /\ lineVelocity >= PilotVelocity

handleInput ==
    /\ loopActive
    /\ impulses < MaxImpulses
    /\ IF pilot THEN PilotFires
       ELSE \/ lineVelocity \in FireVelocities \/ frames \in FireFrames \/ impulses > 0
            \/ solEffectActive
    /\ lineVelocity' = HandleInputVelocity(lineVelocity)
    /\ isAscending' = TRUE
    /\ impulses' = impulses + 1
    /\ last' = Op("input")
    /\ UNCHANGED <<reactVars, storeVars, mounted, effectPending, envVars, frames,
                   runs, lingered>>
    /\ UNCHANGED <<loopActive, rafQueue, animationFrameId, loopHighScore,
                   loopHighestTokenCounts, lineY, gates, lastGateX, gatesPassed,
                   currentScore, baseSpeed, currentSpeed, activeEffects, isGoldMode,
                   flashingGates, btcEffectActive, solEffectActive, screenFlashTime,
                   chaosMode, chaosModeEndTime, lastTokenType, difficultyLevel>>

-----------------------------------------------------------------------------
(* The game-loop effect, lines 136-663, as React runs it on a commit in    *)
(* which one of its dependencies (line 663) changed: the cleanup of the    *)
(* previous run of the effect (lines 658-662), then the effect body.  The  *)
(* same commit runs the effect of lines 131-133.                           *)

(* requestAnimationFrame returns a handle not in use.                      *)
FreshHandle(q) == CHOOSE id \in 1..(Cardinality(q) + 1) : id \notin q
RequestAnimationFrame(q) == q \cup {FreshHandle(q)}

(* Mutant: the cleanup does not cancel the outstanding callback.           *)
CancelAnimationFrame_Skip(q, id) == q

(* Line 659.                                                               *)
CancelAnimationFrame(q, id) == q \ {id}

(* Line 137.                                                               *)
LoopStarts(state) == state = PLAYING

GameLoopEffect ==
    /\ effectPending
    /\ effectPending' = FALSE
    /\ tokenCountsRef' = tokenCounts
    /\ LET cleaned == IF loopActive
                      THEN CancelAnimationFrame(rafQueue, animationFrameId)
                      ELSE rafQueue
       IN  IF LoopStarts(gameState)
           THEN \E sc \in {c \in Scenarios : c.pilot => runs = 1} :
                \E t \in {sc.tape}, dt \in {sc.frameInterval} :
                \E gate \in {CreateGate(TapeDraw(t, 1), NONE, 1)} :
                      /\ FreshLoop
                      /\ loopActive' = TRUE
                      /\ loopHighScore' = highScore
                      /\ loopHighestTokenCounts' = highestTokenCounts
                      /\ gates' = <<gate>>
                      /\ lastTokenType' = gate.tokenType
                      /\ lastGateX' = GAME_WIDTH
                      /\ animationFrameId' = FreshHandle(cleaned)
                      /\ rafQueue' = RequestAnimationFrame(cleaned)
                      /\ tape' = t
                      /\ frameInterval' = dt
                      /\ pilot' = sc.pilot
                      /\ spawned' = 1
                      /\ spawnLog' = <<gate.tokenType>>
           ELSE /\ FreshLoop
                /\ loopActive' = FALSE
                /\ loopHighScore' = 0
                /\ loopHighestTokenCounts' = ZeroCounts
                /\ gates' = <<>>
                /\ lastTokenType' = NONE
                /\ lastGateX' = GAME_WIDTH
                /\ animationFrameId' = 0
                /\ rafQueue' = cleaned
                /\ tape' = 1
                /\ frameInterval' = 16
                /\ pilot' = FALSE
                /\ spawned' = 0
                /\ spawnLog' = <<>>
    /\ last' = Op("effect")
    /\ UNCHANGED <<gameState, score, highScore, tokenCounts, highestTokenCounts,
                   storeVars, mounted, runs>>

-----------------------------------------------------------------------------
(* gameLoop, lines 266-569: one frame step.                                *)

(* Mutant: no gravity.                                                     *)
Gravitate_Weightless(v, sol) == v

(* Lines 277-295: the velocity after gravity and chaos.  v is the velocity *)
(* processEffects left.                                                    *)
Gravitate(v, sol) == IF sol THEN v ELSE v + GRAVITY

(* Mutant: Math.random() * 2.                                              *)
ChaosKick_Unsigned(r) == r * 20

(* Line 285: (Math.random() - 0.5) * 2.                                    *)
ChaosKick(r) == (r - 500) * 20

ChaosApplies(chaos, timestamp, endTime) == chaos /\ timestamp < endTime
ChaosEnds(chaos, timestamp, endTime) == chaos /\ timestamp >= endTime

(* Lines 298-302.                                                          *)
Ascending(v) == ~(v > 0)

(* Line 387.                                                               *)
FlashPhase(timestamp) == (timestamp \div 200) % 2 = 0

(* Lines 381-383.                                                          *)
NextLastGateX(x, lastX) == IF x > lastX - GATE_WIDTH THEN x ELSE lastX

(* Mutant: a collected token stays on its gate.                            *)
GateAfter_KeepsToken(gate, x, flashing, collect, pass) ==
    [gate EXCEPT !.x = x,
                 !.isFlashing = flashing,
                 !.hasPassed = IF pass THEN TRUE ELSE @]

(* The gate object as the callback leaves it.                              *)
GateAfter(gate, x, flashing, collect, pass) ==
    [gate EXCEPT !.x = x,
                 !.isFlashing = flashing,
                 !.tokenType = IF collect THEN NONE ELSE @,
                 !.hasPassed = IF pass THEN TRUE ELSE @]

(* Lines 421-518 for a gate at its new position x: collision ends the run  *)
(* and drops the gate (line 448); otherwise the token (lines 451-486), the *)
(* passage (lines 489-502) and the visibility test (lines 505-517).  g is  *)
(* the gate object afterwards.                                             *)
GateChecked(a, e, x, kind, collision, collect, pass, g) ==
    IF collision
    THEN [a EXCEPT
            !.lastGateX = NextLastGateX(x, @),
            !.rx = RunEnd(a.rx, a.currentScore, a.tokenCountsRef,
                          e.loopHighScore, e.loopHighestTokenCounts, e.fail),
            !.collided = TRUE,
            !.hits = @ \cup {g},
            !.all = Append(@, g)]
    ELSE [a EXCEPT
            !.lastGateX = NextLastGateX(x, @),
            !.activeEffects = IF collect THEN ApplyTokenEffect(@, kind, e.timestamp) ELSE @,
            !.screenFlashTime = IF collect THEN e.timestamp ELSE @,
            !.tokenCountsRef = IF collect THEN [@ EXCEPT ![kind] = @ + 1] ELSE @,
            !.chaosMode = IF collect /\ kind = BCH THEN TRUE ELSE @,
            !.chaosModeEndTime = IF collect /\ kind = BCH
                                 THEN e.timestamp + BCH_CHAOS_DURATION ELSE @,
            !.collected = IF collect THEN kind ELSE @,
            !.collectedLog = IF collect
                             THEN Append(@, [type |-> kind, time |-> e.timestamp])
                             ELSE @,
            !.gatesPassed = IF pass THEN @ + 1 ELSE @,
            !.currentScore = IF pass THEN a.gatesPassed + 1 ELSE @,
            !.difficultyLevel =
                IF pass /\ (a.gatesPassed + 1) % DIFFICULTY_GATE_THRESHOLD = 0
                THEN @ + 1 ELSE @,
            !.baseSpeed =
                IF pass /\ (a.gatesPassed + 1) % DIFFICULTY_GATE_THRESHOLD = 0
                THEN BaseSpeedAt(a.difficultyLevel + 1) ELSE @,
            !.rx = [@ EXCEPT
                      !.tokenCounts = IF collect THEN [@ EXCEPT ![kind] = @ + 1] ELSE @,
                      !.score = IF pass THEN a.gatesPassed + 1 ELSE @],
            !.all = Append(@, g),
            !.kept = IF StillVisible(x) THEN Append(@, g) ELSE @]

(* Lines 386-390 and the gate object, then the rest of the callback.       *)
GateTested(a, gate, e, x, collision, collect, pass) ==
    GateChecked(a, e, x, gate.tokenType, collision, collect, pass,
                GateAfter(gate, x,
                          e.flashingGates /\ FlashPhase(e.timestamp),
                          collect /\ ~collision, pass /\ ~collision))

(* Lines 378-419 and the tests of lines 421, 452-454 and 490.              *)
GateMoved(a, gate, e, x, gap) ==
    GateTested([a EXCEPT !.gaps = @ \cup {[n |-> gate.n, base |-> gate.baseGateGap,
                                          gap |-> gap]}],
               gate, e, x,
               Overlaps(x) /\ Collision(e.lineY, gate.topHeight, gap, e.solEffectActive),
               Overlaps(x) /\ TokenCollected(e.lineY, gate, gap),
               Passes(gate, x))

(* The callback of gates.filter, lines 377-518, applied to one gate.  a    *)
(* holds everything the callback can change; e holds what it only reads.   *)
(* a.all collects the gate objects as the callback leaves them (they are   *)
(* changed in place), a.kept those for which it returned true.  After a    *)
(* throw the remaining gates are not visited.                              *)
GateStep(a, gate, e) ==
    IF a.rx.threw THEN [a EXCEPT !.all = Append(@, gate)]
    ELSE GateMoved(a, gate, e, gate.x - e.currentSpeed,
                   ActualGateGap(gate.baseGateGap, e.btcEffectActive))

RECURSIVE FilterGates(_, _, _)
FilterGates(a, gs, e) ==
    IF gs = <<>> THEN a ELSE FilterGates(GateStep(a, Head(gs), e), Tail(gs), e)

(* What the frame step reads and does not change in the filter.            *)
FrameEnv(timestamp, y, d, fail) ==
    [ timestamp |-> timestamp, lineY |-> y,
      currentSpeed |-> d.currentSpeed,
      flashingGates |-> d.flashingGates,
      btcEffectActive |-> d.btcEffectActive,
      solEffectActive |-> d.solEffectActive,
      loopHighScore |-> loopHighScore,
      loopHighestTokenCounts |-> loopHighestTokenCounts,
      fail |-> fail ]

(* What the filter can change, as it stands before the first gate.         *)
FrameAcc(effects, chaos, lastX) ==
    [ rx |-> [ gameState |-> gameState, score |-> score,
               highScore |-> highScore, tokenCounts |-> tokenCounts,
               highestTokenCounts |-> highestTokenCounts,
               lsHighScore |-> lsHighScore, lsCounts |-> lsCounts,
               ended |-> FALSE, threw |-> FALSE, synced |-> FALSE ],
      all |-> <<>>, kept |-> <<>>, lastGateX |-> lastX,
      gatesPassed |-> gatesPassed, currentScore |-> currentScore,
      baseSpeed |-> baseSpeed, difficultyLevel |-> difficultyLevel,
      activeEffects |-> effects, screenFlashTime |-> screenFlashTime,
      chaosMode |-> chaos, chaosModeEndTime |-> chaosModeEndTime,
      tokenCountsRef |-> tokenCountsRef,
      collectedLog |-> collectedLog,
      collided |-> FALSE, collected |-> NONE, hits |-> {}, gaps |-> {} ]

(* Lines 277-295.                                                          *)
NextVelocity(v, sol, chaos, timestamp, endTime, r) ==
    IF ChaosApplies(chaos, timestamp, endTime)
    THEN Gravitate(v, sol) + ChaosKick(r)
    ELSE Gravitate(v, sol)

(* A frame callback runs: gameLoop(timestamp).  Each value the step        *)
(* computes is bound once, as a one-element choice.                        *)
gameLoop ==
    /\ frames < FrameCap
    /\ ~PilotFires
    /\ gameState = GAME_OVER => lingered < MaxLinger
    /\ \E id \in rafQueue, fail \in BOOLEAN :
       \E timestamp \in {now + frameInterval} :
       (* lines 270-271 *)
       \E pe \in {ProcessEffects(activeEffects, timestamp, baseSpeed, lineVelocity)} :
       (* lines 276-302 *)
       \E v \in {NextVelocity(pe.d.lineVelocity, pe.d.solEffectActive, chaosMode,
                              timestamp, chaosModeEndTime, ChaosDraw(tape, frames))} :
       (* lines 342-374 *)
       \E spawn \in {SpawnDue(lastGateX)} :
       \E newGate \in {CreateGate(TapeDraw(tape, spawned + 1), lastTokenType,
                                   spawned + 1)} :
       (* lines 376-518 *)
       \E a \in {FilterGates(
                   FrameAcc(pe.activeEffects,
                            chaosMode /\ ~ChaosEnds(chaosMode, timestamp, chaosModeEndTime),
                            IF spawn THEN GAME_WIDTH ELSE lastGateX),
                   IF spawn THEN Append(gates, newGate) ELSE gates,
                   FrameEnv(timestamp, lineY + v, pe.d, fail))} :
       (* lines 537-566 *)
       \E oob \in {~a.rx.threw /\ OutOfBounds(lineY + v)} :
       \E rx \in {IF oob
                  THEN RunEnd(a.rx, a.currentScore, a.tokenCountsRef,
                              loopHighScore, loopHighestTokenCounts, fail)
                  ELSE a.rx} :
       (* lines 568-569 *)
       \E again \in {~rx.threw /\ ~oob} :
           /\ lineVelocity' = v
           /\ lineY' = lineY + v
           /\ isAscending' = Ascending(v)
           /\ currentSpeed' = pe.d.currentSpeed
           /\ isGoldMode' = pe.d.isGoldMode
           /\ flashingGates' = pe.d.flashingGates
           /\ btcEffectActive' = pe.d.btcEffectActive
           /\ solEffectActive' = pe.d.solEffectActive
           /\ gates' = IF a.rx.threw THEN a.all ELSE a.kept
           /\ lastGateX' = a.lastGateX
           /\ lastTokenType' = IF spawn THEN newGate.tokenType ELSE lastTokenType
           /\ spawned' = IF spawn THEN spawned + 1 ELSE spawned
           /\ spawnLog' = IF spawn /\ Len(spawnLog) < MaxSpawnLog
                          THEN Append(spawnLog, newGate.tokenType) ELSE spawnLog
           /\ collectedLog' = Recent(a.collectedLog, timestamp)
           /\ gatesPassed' = a.gatesPassed
           /\ currentScore' = a.currentScore
           /\ baseSpeed' = a.baseSpeed
           /\ difficultyLevel' = a.difficultyLevel
           /\ activeEffects' = a.activeEffects
           /\ screenFlashTime' = a.screenFlashTime
           /\ chaosMode' = a.chaosMode
           /\ chaosModeEndTime' = a.chaosModeEndTime
           /\ tokenCountsRef' = a.tokenCountsRef
           /\ gameState' = rx.gameState
           /\ score' = rx.score
           /\ highScore' = rx.highScore
           /\ tokenCounts' = rx.tokenCounts
           /\ highestTokenCounts' = rx.highestTokenCounts
           /\ lsHighScore' = rx.lsHighScore
           /\ lsCounts' = rx.lsCounts
           /\ effectPending' = (effectPending \/ rx.ended)
           /\ rafQueue' = IF again THEN RequestAnimationFrame(rafQueue \ {id})
                          ELSE rafQueue \ {id}
           /\ animationFrameId' = IF again THEN FreshHandle(rafQueue \ {id})
                                  ELSE animationFrameId
           /\ now' = timestamp
           /\ frames' = frames + 1
           /\ impulses' = 0
           /\ lingered' = IF gameState = GAME_OVER THEN lingered + 1 ELSE lingered
           /\ last' = [ op |-> "frame", ended |-> rx.ended, collided |-> a.collided,
                        oob |-> oob, threw |-> rx.threw, synced |-> rx.synced,
                        collected |-> a.collected, scheduled |-> again,
                        hits |-> a.hits, gaps |-> a.gaps, fired |-> impulses > 0 ]
    /\ UNCHANGED <<mounted, loopActive, loopHighScore, loopHighestTokenCounts,
                   frameInterval, tape, pilot, runs>>

-----------------------------------------------------------------------------
Next ==
    \/ Mount
    \/ handleStartGame
    \/ GameLoopEffect
    \/ handleInput
    \/ gameLoop

Spec == Init /\ [][Next]_vars

-----------------------------------------------------------------------------
(* The creation of a gate on its own (initializeGate, lines 229-260, and   *)
(* the spawn of gameLoop, lines 343-374), for draws over the whole range   *)
(* of Math.random(): the extremes, the quartiles and both sides of the     *)
(* thresholds of the narrow roll and the token roll.                       *)

HeightDraws == {0, 250, 500, 750, 999}
NarrowRolls == {299, 300}
TokenRolls == {249, 250}
IndexDraws == {0, 200, 400, 600, 800, 999}

CreateAnyGate ==
    /\ \E rv \in HeightDraws, rt \in HeightDraws, rn \in NarrowRolls,
          rr \in TokenRolls, ri \in IndexDraws :
       \E gate \in {CreateGate(Draw(rv, rt, rn, rr, ri), lastTokenType, 1)} :
          /\ gates' = <<gate>>
          /\ lastTokenType' = gate.tokenType
    /\ UNCHANGED <<reactVars, storeVars, mounted, effectPending, envVars, frames,
                   runs, impulses, lingered, last>>
    /\ UNCHANGED <<loopActive, rafQueue, animationFrameId, loopHighScore,
                   loopHighestTokenCounts, lineY, lineVelocity, isAscending,
                   lastGateX, gatesPassed, currentScore, baseSpeed, currentSpeed,
                   activeEffects, isGoldMode, flashingGates, btcEffectActive,
                   solEffectActive, screenFlashTime, chaosMode, chaosModeEndTime,
                   difficultyLevel>>

GateSpec == Init /\ [][CreateAnyGate]_vars

-----------------------------------------------------------------------------
(* The game without input: the player never fires (so the run is not the   *)
(* pilot's), the browser delivers every frame callback requested, and      *)
(* React commits every state change.                                       *)

QuietNext ==
    \/ Mount
    \/ handleStartGame
    \/ GameLoopEffect /\ ~pilot'
    \/ gameLoop

QuietSpec ==
    Init /\ [][QuietNext]_vars /\ WF_vars(gameLoop) /\ WF_vars(GameLoopEffect /\ ~pilot')

-----------------------------------------------------------------------------
(* Claims.                                                                 *)

(* C1: the lifecycle state changes only from START or GAME_OVER to PLAYING *)
(* by the start command, and from PLAYING to GAME_OVER by a frame step     *)
(* that detected a gate collision or an out-of-bounds position; so START   *)
(* is never re-entered and GAME_OVER is never entered from START.          *)
C1_LifecycleTransitions ==
    [][gameState' # gameState =>
         \/ /\ gameState \in {START, GAME_OVER}
            /\ gameState' = PLAYING
            /\ last'.op = "start"
         \/ /\ gameState = PLAYING
            /\ gameState' = GAME_OVER
            /\ last'.op = "frame"
            /\ last'.collided \/ last'.oob]_vars

(* A second run, started from GAME_OVER, has ended by a gate collision.    *)
C1_Witness ==
    runs = 2 /\ gameState = GAME_OVER /\ last.op = "frame" /\ last.collided

(* C2: once a frame step has ended the run, no frame callback is           *)
(* outstanding and no further frame step has run.                          *)
C2_LoopStopsAtRunEnd ==
    gameState = GAME_OVER => (rafQueue = {} /\ lingered = 0)

(* C3: at most one frame callback is requested and neither run nor         *)
(* cancelled.                                                              *)
C3_AtMostOneCallback == Cardinality(rafQueue) <= 1

(* The effect of a restart has requested the new run's callback.           *)
C3_Witness ==
    runs = 2 /\ last.op = "effect" /\ loopActive /\ Cardinality(rafQueue) = 1

(* C4: after the mount, the best-ever count of a kind changes only in a    *)
(* frame step that ends the run with that kind's run count greater than    *)
(* the recorded best, and it becomes that run count; it never decreases.   *)
C4_BestCountsMonotone ==
    [][mounted =>
         \A k \in Kinds :
            /\ ~JsGreater(highestTokenCounts[k], highestTokenCounts'[k])
            /\ highestTokenCounts'[k] # highestTokenCounts[k] =>
                 /\ last'.op = "frame"
                 /\ last'.ended
                 /\ JsGreater(tokenCountsRef'[k], highestTokenCounts[k])
                 /\ highestTokenCounts'[k] = tokenCountsRef'[k]]_vars

(* A run has ended with a count above the best the run started with, and   *)
(* another kind's best, which the run did not reach, is still there.       *)
C4_Witness ==
    /\ last.op = "frame" /\ last.ended
    /\ \E k \in Kinds :
          /\ JsGreater(tokenCountsRef[k], loopHighestTokenCounts[k])
          /\ highestTokenCounts[k] = tokenCountsRef[k]
    /\ \E k \in Kinds : JsGreater(highestTokenCounts[k], tokenCountsRef[k])

(* C5: both persisted items change only in a frame step that ends the run. *)
C5_WritesOnlyAtRunEnd ==
    [][(lsHighScore' # lsHighScore \/ lsCounts' # lsCounts) =>
         (last'.op = "frame" /\ last'.ended /\ gameState' = GAME_OVER)]_vars

(* A run end has persisted a new high score.                               *)
C5_Witness ==
    /\ last.op = "frame" /\ last.ended
    /\ currentScore > 0
    /\ JsGreater(currentScore, loopHighScore)
    /\ lsHighScore = NumberToString(currentScore)

(* C6: when setItem throws at run end, the lifecycle is GAME_OVER, the     *)
(* best-ever counts are raised to the run's counts and the run's counts    *)
(* are synced to the state.                                                *)
C6_WriteFailureIgnored ==
    (last.op = "frame" /\ last.threw) =>
        /\ gameState = GAME_OVER
        /\ last.synced
        /\ \A k \in Kinds : ~JsGreater(tokenCountsRef[k], highestTokenCounts[k])

(* C7: a stored high score that is no number loads as 0, and a run that    *)
(* ends with a positive score leaves a best-ever score not below it.       *)
C7_MalformedHighScoreIsAbsent ==
    /\ (last.op = "mount" /\ Truthy(lsHighScore) /\ ParseInt(lsHighScore) = NaN) =>
          highScore = 0
    /\ (last.op = "frame" /\ last.ended /\ ~last.threw /\ currentScore > 0) =>
          (highScore # NaN /\ highScore >= currentScore)

(* C8: a stored counts item that does not parse, or that lacks the count   *)
(* of a kind, loads as zero for every kind.                                *)
C8_MalformedCountsAreAbsent ==
    (/\ last.op = "mount"
     /\ CountsItemTruthy(lsCounts)
     /\ ~JsonParses(lsCounts) \/ \E k \in Kinds : JsonParse(lsCounts)[k] = Undefined) =>
        highestTokenCounts = ZeroCounts

(* C9: the start command sets PLAYING and zeroes the score and the run     *)
(* counters, and the effect it triggers starts the run at initial values;  *)
(* neither changes the best-ever score or counts.                          *)
C9_StartResetsRun ==
    [][/\ last'.op = "start" =>
            /\ gameState \in {START, GAME_OVER}
            /\ gameState' = PLAYING
            /\ score' = 0
            /\ tokenCounts' = ZeroCounts
            /\ tokenCountsRef' = ZeroCounts
            /\ UNCHANGED <<highScore, highestTokenCounts>>
       /\ (last'.op = "effect" /\ gameState' = PLAYING) =>
            /\ loopActive'
            /\ score' = 0 /\ currentScore' = 0 /\ gatesPassed' = 0
            /\ tokenCounts' = ZeroCounts
            /\ tokenCountsRef' = ZeroCounts
            /\ Len(gates') = 1
            /\ gates'[1].x = GAME_WIDTH
            /\ ~gates'[1].hasPassed
            /\ activeEffects' = <<>>
            /\ ~chaosMode'
            /\ baseSpeed' = GATE_SPEED
            /\ currentSpeed' = GATE_SPEED
            /\ difficultyLevel' = 1
            /\ lineY' * 2 = GAME_HEIGHT
            /\ lineVelocity' = 0
            /\ UNCHANGED <<highScore, highestTokenCounts>>]_vars

(* A restart after a run that scored, collected a token and set a best.    *)
C9_Witness ==
    /\ runs = 2 /\ last.op = "effect" /\ gameState = PLAYING
    /\ highScore > 0
    /\ lsHighScore = NumberToString(highScore)

(* C10: an impulse sets the velocity to BOUNCE_VELOCITY and the direction  *)
(* to ascending and changes nothing else; a further impulse before the     *)
(* next frame step changes nothing at all.                                 *)
C10_ImpulseIdempotent ==
    [][last'.op = "input" =>
         /\ lineVelocity' = BOUNCE_VELOCITY
         /\ isAscending' = TRUE
         /\ impulses > 0 => (lineVelocity' = lineVelocity /\ isAscending' = isAscending)
         /\ UNCHANGED <<reactVars, storeVars, mounted, effectPending, envVars>>
         /\ UNCHANGED <<loopActive, rafQueue, animationFrameId, loopHighScore,
                        loopHighestTokenCounts, lineY, gates, lastGateX, gatesPassed,
                        currentScore, baseSpeed, currentSpeed, activeEffects,
                        isGoldMode, flashingGates, btcEffectActive, solEffectActive,
                        screenFlashTime, chaosMode, chaosModeEndTime, lastTokenType,
                        difficultyLevel>>]_vars

(* Two impulses since the last frame step, the first at a velocity other   *)
(* than BOUNCE_VELOCITY, with a gate in the stream.                        *)
C10_Witness ==
    impulses = 2 /\ last.op = "input" /\ frames > 0 /\ lineVelocity = BOUNCE_VELOCITY

(* C11: after every frame step of a run, with k the number of passages so  *)
(* far, the difficulty level is 1 + floor(k / 15) and the base speed is    *)
(* GATE_SPEED * (1 + floor(k / 15) * DIFFICULTY_INCREASE): the initial     *)
(* speed for k <= 14, 1.1 times it at k = 15; and a frame step never       *)
(* lowers the base speed.                                                  *)
C11_DifficultyFollowsPassages ==
    [][last'.op = "frame" =>
         /\ difficultyLevel' = 1 + (gatesPassed' \div DIFFICULTY_GATE_THRESHOLD)
         /\ baseSpeed' * 100 =
               GATE_SPEED * (100 + (gatesPassed' \div DIFFICULTY_GATE_THRESHOLD)
                                     * DIFFICULTY_INCREASE)
         /\ gatesPassed' <= 14 => baseSpeed' = GATE_SPEED
         /\ gatesPassed' = 15 => baseSpeed' * 10 = GATE_SPEED * 11
         /\ baseSpeed' >= baseSpeed]_vars

(* The frame step of the sixteenth passage, at the second level.           *)
C11_Witness ==
    /\ last.op = "frame"
    /\ gatesPassed = DIFFICULTY_GATE_THRESHOLD + 1
    /\ difficultyLevel = 2
    /\ baseSpeed > GATE_SPEED

(* What the claims about effects read from the history.  The gates the    *)
(* last frame step tested, as it left them: those still in the stream and  *)
(* those that collided.                                                    *)
TestedGates == {gates[i] : i \in 1..Len(gates)} \cup last.hits

(* A token of this kind was collected in an earlier frame of the run, less *)
(* than duration ms before the timestamp of the last frame step.           *)
CollectedWithin(kind, duration) ==
    \E i \in 1..Len(collectedLog) :
        /\ collectedLog[i].type = kind
        /\ collectedLog[i].time < now
        /\ now < collectedLog[i].time + duration

(* The position is beyond the bottom boundary of the gate's own gap and    *)
(* inside the gap widened by one half.                                     *)
InWidenedPartOnly(y, g) ==
    /\ y > g.topHeight + g.baseGateGap
    /\ 2 * y < 2 * g.topHeight + 3 * g.baseGateGap

(* C12 as stated: after a BTC token was collected at t, a position beyond  *)
(* the un-widened bottom boundary but inside the widened gap of an         *)
(* overlapping gate does not collide in later frames with timestamp        *)
(* < t + 10000, and collides in frames in which no BTC collection is that  *)
(* recent.                                                                 *)
C12_WidenedUntilExpiry_Original ==
    last.op = "frame" =>
        \A g \in TestedGates :
            (Overlaps(g.x) /\ InWidenedPartOnly(lineY, g)) =>
                /\ CollectedWithin(BTC, 10000) => g \notin last.hits
                /\ ~CollectedWithin(BTC, 10000) => g \in last.hits

(* C12 as amended: the position collides again after the expiry unless a   *)
(* SOL token was collected less than 5000 ms before the frame.             *)
C12_WidenedUntilExpiry ==
    last.op = "frame" =>
        \A g \in TestedGates :
            (Overlaps(g.x) /\ InWidenedPartOnly(lineY, g)) =>
                /\ CollectedWithin(BTC, 10000) => g \notin last.hits
                /\ (~CollectedWithin(BTC, 10000) /\ ~CollectedWithin(SOL, 5000)) =>
                      (g \in last.hits /\ last.ended)

(* The frame whose timestamp is t + 10000 exactly: the gate the marker     *)
(* was passing in the widened part of its gap ends the run.                *)
C12_Witness ==
    /\ last.op = "frame"
    /\ \E i \in 1..Len(collectedLog) :
          collectedLog[i].type = BTC /\ now = collectedLog[i].time + 10000
    /\ \E g \in last.hits : Overlaps(g.x) /\ InWidenedPartOnly(lineY, g)

(* C13: after a SOL token was collected at t, every later frame with       *)
(* timestamp < t + 5000 integrates the position with velocity 0, chaos     *)
(* mode included.                                                          *)
C13_FrictionlessVelocityZero ==
    (last.op = "frame" /\ CollectedWithin(SOL, 5000)) => lineVelocity = 0

(* C14: a frame step ends the run for out-of-bounds only when the          *)
(* integrated position is < 0 or > GAME_HEIGHT, and with such a position   *)
(* the frame step ends the run (by the out-of-bounds block, or by the gate *)
(* block when its write threw first), whatever the gates and the effects;  *)
(* a position of exactly GAME_HEIGHT or 0 does not end the run by          *)
(* out-of-bounds.                                                          *)
C14_OutOfBoundsEndsRun ==
    last.op = "frame" =>
        /\ last.oob => (lineY < 0 \/ lineY > GAME_HEIGHT)
        /\ (lineY < 0 \/ lineY > GAME_HEIGHT) =>
              (last.ended /\ gameState = GAME_OVER /\ (last.oob \/ last.threw))
        /\ (last.ended /\ ~last.collided) => last.oob

(* The position is exactly GAME_HEIGHT and the run goes on.                *)
C14_Witness ==
    /\ last.op = "frame"
    /\ lineY = GAME_HEIGHT
    /\ gameState = PLAYING
    /\ last.scheduled

(* The gap of gate g in the last frame step: widened by one half while    *)
(* the BTC effect was active.                                              *)
EffectiveGap(g) == IF btcEffectActive THEN (3 * g.baseGateGap) \div 2 ELSE g.baseGateGap

(* The horizontal span of g contains the player's x.                       *)
SpanContainsLine(g) == g.x <= LINE_X_POSITION /\ LINE_X_POSITION <= g.x + GATE_WIDTH

(* C15 as stated: with no SOL effect active, a gate ends the run in a      *)
(* frame step exactly when its span contains the player's x and the        *)
(* position is < topHeight or > topHeight + effective gap.                 *)
C15_GateCollision_Original ==
    (last.op = "frame" /\ ~solEffectActive) =>
        \A g \in TestedGates :
            g \in last.hits <=>
                /\ SpanContainsLine(g)
                /\ lineY < g.topHeight \/ lineY > g.topHeight + EffectiveGap(g)

(* C15 as amended: the position collides also when it is exactly on a      *)
(* boundary of the opening (<= topHeight, >= topHeight + effective gap);   *)
(* a gate that collides ends the run.                                      *)
C15_GateCollision ==
    (last.op = "frame" /\ ~solEffectActive) =>
        /\ \A g \in TestedGates :
              g \in last.hits <=>
                  /\ SpanContainsLine(g)
                  /\ lineY <= g.topHeight \/ lineY >= g.topHeight + EffectiveGap(g)
        /\ last.hits # {} <=> last.collided
        /\ last.collided => (last.ended /\ gameState = GAME_OVER)

(* A gate has ended the run with the position exactly on its top boundary. *)
C15_Witness ==
    /\ last.op = "frame" /\ ~solEffectActive /\ last.ended
    /\ \E g \in last.hits : SpanContainsLine(g) /\ lineY = g.topHeight

(* The position is at or beyond a boundary of the opening of g.            *)
OutsideOpening(y, g) ==
    y <= g.topHeight \/ y >= g.topHeight + EffectiveGap(g)

(* C16: in a frame less than 5000 ms after a SOL token was collected (in   *)
(* an earlier frame) no gate collides, whatever the position; in every     *)
(* other frame a gate whose span contains the player's x, with the         *)
(* position outside its opening, collides and ends the run.                *)
C16_GhostSuppressesCollision ==
    last.op = "frame" =>
        /\ CollectedWithin(SOL, 5000) => (last.hits = {} /\ ~last.collided)
        /\ ~CollectedWithin(SOL, 5000) =>
              \A g \in TestedGates :
                  (SpanContainsLine(g) /\ OutsideOpening(lineY, g)) =>
                      (g \in last.hits /\ last.ended)

(* A frame of the SOL effect in which the marker is inside the wall of the *)
(* gate at the player's x, and the run goes on.                            *)
C16_Witness ==
    /\ last.op = "frame"
    /\ CollectedWithin(SOL, 5000)
    /\ \E g \in TestedGates : SpanContainsLine(g) /\ OutsideOpening(lineY, g)
    /\ gameState = PLAYING
    /\ last.scheduled

(* The gates of a stream, as a set.                                        *)
GateSet(gs) == {gs[i] : i \in 1..Len(gs)}

(* The numbers of the gates whose passed flag the step has set.            *)
NewlyPassed(before, after) ==
    {g2.n : g2 \in {h \in GateSet(after) :
                       /\ h.hasPassed
                       /\ \E g \in GateSet(before) : g.n = h.n /\ ~g.hasPassed}}

(* C17: a frame step adds to the passage counter the number of gates whose *)
(* passed flag it sets; it sets the flag of a gate in the first frame step *)
(* that leaves gate.x + GATE_WIDTH < LINE_X_POSITION and never clears it;  *)
(* and throughout a run the score, in the closure and in the React state,  *)
(* equals the passage counter.                                             *)
C17_PassageCountedOnce ==
    [][/\ last'.op = "frame" =>
            /\ gatesPassed' = gatesPassed + Cardinality(NewlyPassed(gates, gates'))
            /\ \A h \in GateSet(gates') :
                  h.hasPassed <=> h.x + GATE_WIDTH < LINE_X_POSITION
            /\ \A g \in GateSet(gates), h \in GateSet(gates') :
                  (g.n = h.n /\ h.n \in NewlyPassed(gates, gates')) =>
                      g.x + GATE_WIDTH >= LINE_X_POSITION
            /\ \A g \in GateSet(gates), h \in GateSet(gates') :
                  (g.n = h.n /\ g.hasPassed) => h.hasPassed
       /\ loopActive' => (score' = gatesPassed' /\ currentScore' = gatesPassed')]_vars

(* Two gates have passed; the second has its flag set for at least three   *)
(* frame steps and is still in the stream.                                 *)
C17_Witness ==
    /\ last.op = "frame"
    /\ gatesPassed = 2 /\ score = 2
    /\ \E g \in GateSet(gates) :
          g.n = 2 /\ g.hasPassed /\ g.x + GATE_WIDTH + 3 * GATE_SPEED < LINE_X_POSITION

(* The numbers of the gates whose token the step has removed, all kinds    *)
(* or one kind.                                                            *)
NewlyCleared(before, after) ==
    {h.n : h \in {h2 \in GateSet(after) :
                     /\ h2.tokenType = NONE
                     /\ \E g \in GateSet(before) : g.n = h2.n /\ g.tokenType # NONE}}

NewlyClearedOf(kind, before, after) ==
    {h.n : h \in {h2 \in GateSet(after) :
                     /\ h2.tokenType = NONE
                     /\ \E g \in GateSet(before) : g.n = h2.n /\ g.tokenType = kind}}

SumCounts(c) == c[BTC] + c[ETH] + c[TAO] + c[BCH] + c[HBAR] + c[SOL]

(* C18: a frame step adds to the run counter of each kind the number of    *)
(* gates whose token of that kind it removes, so one per collected token;  *)
(* a gate's token kind only ever changes to NONE.                          *)
C18_TokenCollectedOnce ==
    [][last'.op = "frame" =>
          /\ \A g \in GateSet(gates), h \in GateSet(gates') :
                g.n = h.n => h.tokenType \in {g.tokenType, NONE}
          /\ \A k \in Kinds :
                tokenCountsRef'[k] =
                    tokenCountsRef[k] + Cardinality(NewlyClearedOf(k, gates, gates'))
          /\ SumCounts(tokenCountsRef') =
                SumCounts(tokenCountsRef) + Cardinality(NewlyCleared(gates, gates'))
          /\ tokenCounts' = tokenCountsRef']_vars

(* A gate created with a token has none left, its kind was counted once,   *)
(* and in a later frame step the marker is still within the collection     *)
(* radius of the token's place while the gate is at the player's x.        *)
C18_Witness ==
    /\ last.op = "frame" /\ last.collected = NONE
    /\ \E g \in GateSet(gates) :
          /\ g.n <= Len(spawnLog)
          /\ spawnLog[g.n] # NONE
          /\ g.tokenType = NONE
          /\ tokenCountsRef[spawnLog[g.n]] = 1
          /\ SpanContainsLine(g)
          /\ lineY - (g.topHeight + EffectiveGap(g) \div 2) < TOKEN_COLLECTION_RADIUS
          /\ (g.topHeight + EffectiveGap(g) \div 2) - lineY < TOKEN_COLLECTION_RADIUS

(* C19: of two gates created one after the other in a run, if both carry  *)
(* a token the kinds differ.                                               *)
C19_ConsecutiveTokensDiffer ==
    \A i \in 1..(Len(spawnLog) - 1) :
        (spawnLog[i] # NONE /\ spawnLog[i + 1] # NONE) => spawnLog[i] # spawnLog[i + 1]

(* Two gates in a row carry a token, and the index drawn for the second    *)
(* would have picked the first gate's kind from the pool of all kinds.     *)
C19_Witness ==
    \E i \in 1..(Len(spawnLog) - 1) :
        /\ spawnLog[i] # NONE /\ spawnLog[i + 1] # NONE
        /\ TokenKinds[((TapeDraw(tape, i + 1).ri * Len(TokenKinds)) \div 1000) + 1]
              = spawnLog[i]

(* C20: a token kind created in a run never equals the kind of the last    *)
(* token created before it, also when gates without a token were created  *)
(* in between.                                                             *)
C20_NoRepeatAcrossEmptyGates ==
    \A i, j \in 1..Len(spawnLog) :
        (/\ i < j
         /\ spawnLog[i] # NONE /\ spawnLog[j] # NONE
         /\ \A m \in (i + 1)..(j - 1) : spawnLog[m] = NONE) =>
            spawnLog[i] # spawnLog[j]

(* C21: the list of active effects never holds an entry of kind BCH or    *)
(* NONE; a frame step that collects a BCH token adds nothing to the list   *)
(* (it holds the unexpired entries it held before), sets the chaos flag    *)
(* and sets the chaos expiration to the frame's timestamp + 3000.          *)
C21_ChaosIsNotAnEffect ==
    /\ [](\A i \in 1..Len(activeEffects) : activeEffects[i].type \notin {BCH, NONE})
    /\ [][(last'.op = "frame" /\ last'.collected = BCH) =>
            /\ activeEffects' = Unexpired(activeEffects, now')
            /\ chaosMode'
            /\ chaosModeEndTime' = now' + 3000]_vars

(* A BCH token was collected while an effect was active.                   *)
C21_Witness ==
    /\ last.op = "frame" /\ last.collected = BCH
    /\ activeEffects # <<>>
    /\ chaosMode /\ chaosModeEndTime = now + 3000

(* The duration of the effect of a kind, and the percentage by which a    *)
(* speed-affecting kind multiplies the base speed.                         *)
EffectDuration(kind) ==
    CASE kind = BTC -> 10000
      [] kind = HBAR -> 10000
      [] kind \in {ETH, TAO, SOL} -> 5000
      [] OTHER -> 0

SpeedKinds == {BTC, ETH, SOL}

SpeedPercent(kind) ==
    CASE kind = BTC -> 110
      [] kind = ETH -> 50
      [] kind = SOL -> 200

(* The collections, by their place in the log, whose effect has not        *)
(* expired at timestamp ts.                                                *)
LiveAt(log, ts) ==
    {i \in 1..Len(log) : log[i].time + EffectDuration(log[i].type) > ts}

LiveSpeedAt(log, ts) == {i \in LiveAt(log, ts) : log[i].type \in SpeedKinds}

(* The place of a kind in the enumeration.                                 *)
EnumIndex(kind) == CHOOSE i \in 1..Len(TokenKinds) : TokenKinds[i] = kind

C23_EffectiveGapNeverShrinks ==
    last.op = "frame" =>
        /\ \A r \in last.gaps :
              /\ r.gap >= r.base
              /\ CollectedWithin(BTC, 10000) => 2 * r.gap = 3 * r.base
              /\ ~CollectedWithin(BTC, 10000) => r.gap = r.base
        /\ ~last.threw =>
              \A g \in GateSet(gates) :
                  \E r \in last.gaps : r.n = g.n /\ r.base = g.baseGateGap

(* A narrow gate and a normal gate are in the stream in a frame with the   *)
(* BTC effect active: their gaps are 180 and 225.                          *)
C23_Witness ==
    /\ last.op = "frame"
    /\ CollectedWithin(BTC, 10000)
    /\ \E r, q \in last.gaps :
          /\ r.base = NARROW_GATE_GAP /\ r.gap = 1800000
          /\ q.base = INITIAL_GATE_GAP /\ q.gap = 2250000

(* The gates of the stream whose token the step has removed.               *)
CollectedGates(before, after) ==
    {g \in GateSet(before) :
        /\ g.tokenType # NONE
        /\ \E h \in GateSet(after) : h.n = g.n /\ h.tokenType = NONE}

(* The gap of a gate in a frame with timestamp ts, by the log of the       *)
(* collections before that frame.                                          *)
GapAt(g, log, ts) ==
    IF \E i \in LiveAt(log, ts) : log[i].type = BTC
    THEN (3 * g.baseGateGap) \div 2 ELSE g.baseGateGap

(* The effects a frame step leaves when it collects the tokens of the      *)
(* gates cs (none or one).                                                 *)
EffectsAfter(effects, cs, ts) ==
    IF \E g \in cs : g.tokenType # BCH
    THEN LET g == CHOOSE c \in cs : c.tokenType # BCH
         IN  Append(Unexpired(effects, ts),
                    [type |-> g.tokenType, endTime |-> ts + EffectDuration(g.tokenType)])
    ELSE Unexpired(effects, ts)

(* C24: a frame step collects the token of a gate exactly when, at the     *)
(* gate's new position, its span contains the player's x, the step found   *)
(* no collision with it, and the distance of the position to topHeight +   *)
(* effective gap / 2 is < TOKEN_COLLECTION_RADIUS.  The step adds one to   *)
(* the run counter of the kind of each token collected and leaves the      *)
(* other counters, and for a kind other than BCH it appends the effect     *)
(* (kind, timestamp + D), D = 10000 for BTC and HBAR, 5000 for ETH, TAO    *)
(* and SOL.                                                                *)
C24_TokenCollection ==
    [][(last'.op = "frame" /\ ~last'.threw) =>
          \E cs \in {CollectedGates(gates, gates')} :
             /\ \A g \in GateSet(gates) :
                   g.tokenType # NONE =>
                      (g \in cs <=>
                          /\ g.x - currentSpeed' <= LINE_X_POSITION
                          /\ LINE_X_POSITION <= g.x - currentSpeed' + GATE_WIDTH
                          /\ \A h \in last'.hits : h.n # g.n
                          /\ Abs(lineY' - (g.topHeight + GapAt(g, collectedLog, now') \div 2))
                                < TOKEN_COLLECTION_RADIUS)
             /\ Cardinality(cs) <= 1
             /\ \A k \in Kinds :
                   tokenCountsRef'[k] =
                       tokenCountsRef[k] + Cardinality({g \in cs : g.tokenType = k})
             /\ activeEffects' = EffectsAfter(activeEffects, cs, now')]_vars

(* A TAO token is collected while the ETH effect is active: its counter    *)
(* is one and the last effect of the list is TAO until timestamp + 5000.   *)
C24_Witness ==
    /\ last.op = "frame" /\ last.collected = TAO
    /\ tokenCountsRef[TAO] = 1 /\ tokenCountsRef[ETH] = 1
    /\ Len(activeEffects) = 2
    /\ activeEffects[1].type = ETH
    /\ activeEffects[2] = [type |-> TAO, endTime |-> now + 5000]

(* The effects of the collections of a log that have not expired at ts,   *)
(* in the order of collection.                                             *)
EffectsOfLog(log, ts) ==
    LET live == SelectSeq(log, LAMBDA c : c.type # BCH
                                          /\ c.time + EffectDuration(c.type) > ts)
    IN  [i \in 1..Len(live) |->
            [type |-> live[i].type,
             endTime |-> live[i].time + EffectDuration(live[i].type)]]

(* An effect of the kind, collected before the frame at ts, has not        *)
(* expired at ts.                                                          *)
InstanceLiveAt(kind, log, ts) ==
    \E i \in LiveAt(log, ts) : log[i].type = kind /\ log[i].time < ts

(* C25: every collection of a kind other than BCH is an instance of its    *)
(* own in the list of effects, from its collection until the first frame   *)
(* whose timestamp is at or after its expiration, whatever is collected    *)
(* meanwhile; and the effect of a kind is on in a frame exactly when an    *)
(* instance of that kind collected before has not expired.                 *)
C25_InstancesAreIndependent ==
    last.op = "frame" =>
        /\ activeEffects = EffectsOfLog(collectedLog, now)
        /\ btcEffectActive <=> InstanceLiveAt(BTC, collectedLog, now)
        /\ solEffectActive <=> InstanceLiveAt(SOL, collectedLog, now)
        /\ flashingGates <=> InstanceLiveAt(TAO, collectedLog, now)
        /\ isGoldMode <=> InstanceLiveAt(HBAR, collectedLog, now)
        /\ (\E i \in 1..Len(activeEffects) : activeEffects[i].type = ETH)
              <=> \E i \in LiveAt(collectedLog, now) : collectedLog[i].type = ETH

(* A SOL token was collected again while the SOL effect was active; the    *)
(* first instance has expired and the effect is still on.                  *)
C25_Witness ==
    /\ last.op = "frame"
    /\ solEffectActive
    /\ \E i, j \in 1..Len(collectedLog) :
          /\ i < j
          /\ collectedLog[i].type = SOL /\ collectedLog[j].type = SOL
          /\ collectedLog[j].time < collectedLog[i].time + 5000
          /\ collectedLog[i].time + 5000 <= now
          /\ now < collectedLog[j].time + 5000
          /\ \A m \in 1..Len(collectedLog) :
                (m > j /\ collectedLog[m].type = SOL) => collectedLog[m].time = now

(* C26: the derived effect state a frame step leaves depends on the       *)
(* effects unexpired in that frame only: with no unexpired BTC, ETH or SOL *)
(* instance the speed is the base speed, and the widen-gap, flashing,      *)
(* palette and frictionless flags are off unless an instance of their kind *)
(* is unexpired; no gate is shown flashing with the flashing flag off.     *)
C26_DerivedStateRecomputed ==
    [][last'.op = "frame" =>
          \E live \in {{collectedLog[i].type : i \in LiveAt(collectedLog, now')}} :
             /\ live \cap SpeedKinds = {} => currentSpeed' = baseSpeed
             /\ BTC \notin live => ~btcEffectActive'
             /\ TAO \notin live => ~flashingGates'
             /\ HBAR \notin live => ~isGoldMode'
             /\ SOL \notin live => ~solEffectActive'
             /\ (~flashingGates' /\ ~last'.threw) =>
                   \A g \in GateSet(gates') : ~g.isFlashing]_vars

(* The first frame after the only BTC effect has expired: the speed is the *)
(* base speed again and the gap is not widened.                            *)
C26_Witness ==
    /\ last.op = "frame"
    /\ Len(collectedLog) = 1
    /\ collectedLog[1].type = BTC
    /\ now - frameInterval < collectedLog[1].time + 10000
    /\ collectedLog[1].time + 10000 <= now
    /\ currentSpeed = baseSpeed /\ ~btcEffectActive

(* The timestamps of the BCH collections of a log.                         *)
ChaosTimes(log) == {log[i].time : i \in {j \in 1..Len(log) : log[j].type = BCH}}

(* The latest of a non-empty set of timestamps.                            *)
Latest(ts) == CHOOSE t \in ts : \A u \in ts : u <= t

(* C27: with the last BCH collection before a frame at t, the frame adds   *)
(* to the velocity (after gravity, or after the frictionless reset) the    *)
(* perturbation (r - 0.5) * 2 in [-1, 1) exactly when its timestamp is     *)
(* < t + 3000, and nothing otherwise; after the frame the chaos flag is on *)
(* exactly when the frame collected a BCH token or its timestamp is        *)
(* < t + 3000, and the expiration is the last collection's timestamp       *)
(* + 3000, the frame's own collection included.                            *)
C27_ChaosMode ==
    [][last'.op = "frame" =>
          \E before \in {ChaosTimes(collectedLog)}, after \in {ChaosTimes(collectedLog')} :
          \E armed \in {before # {} /\ now' < Latest(before) + 3000} :
          \E kick \in {lineVelocity'
                          - (IF solEffectActive' THEN 0 ELSE lineVelocity + GRAVITY)} :
             /\ armed => /\ kick = (ChaosDraw(tape, frames) - 500) * 20
                         /\ kick >= 0 - 10000 /\ kick < 10000
             /\ ~armed => kick = 0
             /\ chaosMode' <=> (armed \/ last'.collected = BCH)
             /\ after # {} => chaosModeEndTime' = Latest(after) + 3000
             /\ (~chaosMode /\ last'.collected # BCH) => ~chaosMode']_vars

(* A BCH token is collected while chaos mode is armed: the expiration      *)
(* moves to this frame's timestamp + 3000.                                 *)
C27_Witness ==
    /\ last.op = "frame" /\ last.collected = BCH
    /\ \E i \in 1..Len(collectedLog) :
          /\ collectedLog[i].type = BCH
          /\ collectedLog[i].time < now
          /\ now < collectedLog[i].time + 3000
    /\ chaosMode /\ chaosModeEndTime = now + 3000

(* C28: after every frame step of a run that goes on, lastGateX is the     *)
(* horizontal position of the gate created last, and no gate of the stream *)
(* is further right; a run that goes on always has a gate in its stream.   *)
C28_LastGateXTracksNewest ==
    (last.op = "frame" /\ gameState = PLAYING) =>
        /\ gates # <<>>
        /\ gates[Len(gates)].n = spawned
        /\ lastGateX = gates[Len(gates)].x
        /\ \A g \in GateSet(gates) : g.x <= lastGateX

(* C29: two gates of the stream are at least GATE_DISTANCE apart, so at    *)
(* most one gate's span contains the player's x; a frame step finds at     *)
(* most one collision and collects at most one token.                      *)
C29_GatesKeepTheirDistance ==
    /\ [](/\ \A i \in 1..(Len(gates) - 1) :
                gates[i + 1].x - gates[i].x >= GATE_DISTANCE
          /\ Cardinality({g \in GateSet(gates) : SpanContainsLine(g)}) <= 1
          /\ Cardinality(last.hits) <= 1)
    /\ [][last'.op = "frame" =>
            /\ Cardinality(CollectedGates(gates, gates')) <= 1
            /\ SumCounts(tokenCountsRef') <= SumCounts(tokenCountsRef) + 1]_vars

(* Four gates are in the stream, as close as the base speed lets them be;  *)
(* the marker is in one of them and has collected its token.               *)
C29_Witness ==
    /\ last.op = "frame" /\ last.collected # NONE
    /\ Len(gates) = 4
    /\ \A i \in 1..3 : gates[i + 1].x - gates[i].x < GATE_DISTANCE + GATE_SPEED
    /\ \E g \in GateSet(gates) : SpanContainsLine(g)

(* C30: every gate created has 50 <= topHeight <= GAME_HEIGHT -           *)
(* INITIAL_GATE_GAP - 100, whatever the draws, so its opening is strictly  *)
(* inside the playfield also when widened by one half: topHeight > 0 and   *)
(* topHeight + 1.5 * baseGateGap < GAME_HEIGHT.                            *)
C30_OpeningInsidePlayfield ==
    \A g \in GateSet(gates) :
        /\ 500000 <= g.topHeight
        /\ g.topHeight <= GAME_HEIGHT - INITIAL_GATE_GAP - 1000000
        /\ g.topHeight > 0
        /\ 2 * g.topHeight + 3 * g.baseGateGap < 2 * GAME_HEIGHT

(* A gate with the normal gap whose opening start was clamped to the upper *)
(* bound: widened, its opening ends at 575.                                *)
C30_Witness ==
    \E g \in GateSet(gates) :
        /\ g.topHeight = GAME_HEIGHT - INITIAL_GATE_GAP - 1000000
        /\ g.baseGateGap = INITIAL_GATE_GAP
        /\ 2 * g.topHeight + 3 * g.baseGateGap = 2 * 5750000

(* C31: with no impulse fired and every frame callback delivered, a run   *)
(* that is in PLAYING reaches GAME_OVER.                                   *)
C31_RunWithoutInputEnds == (gameState = PLAYING) ~> (gameState = GAME_OVER)

(* The marker has fallen from rest under gravity alone, out of the lower   *)
(* bound, and the run has ended before the first gate reached the player.  *)
C31_Witness ==
    /\ gameState = GAME_OVER
    /\ last.op = "frame" /\ last.oob
    /\ lineVelocity = frames * GRAVITY
    /\ 2 * lineY = 2 * (GAME_HEIGHT \div 2) + GRAVITY * frames * (frames + 1)
    /\ lineY > GAME_HEIGHT
    /\ gatesPassed = 0

(* C32: a frame step in which a SOL effect is active and chaos mode is    *)
(* not armed leaves the position where it was, with velocity 0, whatever   *)
(* impulses were fired since the frame step before.                        *)
C32_FrictionlessKeepsPosition ==
    [][(/\ last'.op = "frame"
        /\ InstanceLiveAt(SOL, collectedLog, now')
        /\ \A t \in ChaosTimes(collectedLog) : now' >= t + 3000) =>
           (lineY' = lineY /\ lineVelocity' = 0)]_vars

(* An impulse was fired during the SOL effect and the frame step after it  *)
(* has left the velocity at 0; the run goes on.                            *)
C32_Witness ==
    /\ last.op = "frame" /\ last.fired
    /\ CollectedWithin(SOL, 5000)
    /\ ~chaosMode
    /\ lineVelocity = 0
    /\ gameState = PLAYING

(* C33: a frame step that ends the run leaves the best-ever score at the   *)
(* greater of the best-ever score before it and the run's final score; it  *)
(* rewrites the persisted high score only when the final score is greater  *)
(* than the previous best; the best-ever score never decreases.            *)
C33_BestScoreIsMaximum ==
    [][(last'.op = "frame" /\ last'.ended) =>
          /\ highScore' = IF currentScore' > highScore THEN currentScore' ELSE highScore
          /\ highScore' >= currentScore'
          /\ lsHighScore' # lsHighScore => currentScore' > highScore
          /\ highScore' >= highScore]_vars

=============================================================================
